---- MODULE Spec2Model ----
(***************************************************************************)
(* A model of the scraping engine of MobileDeParser:                       *)
(*   - DatabaseService   (shared/services/database_service.py)             *)
(*   - ParserService     (core/services/parser_service.py)                 *)
(*   - SchedulerService  (core/services/scheduler_service.py)              *)
(*   - ProxyManager      (shared/utils/proxy_manager.py)                   *)
(*   - HTTPClient        (shared/services/http_client.py)                  *)
(*   - ParserManager     (bot/services/parser_manager.py)                  *)
(* The specifications share the variables:                                 *)
(*   SpecStore  writers calling save_product / save_products_batch,        *)
(*              interleaved between the pre-check and the commit;          *)
(*   Spec       run_full_parsing, cycle after cycle, against one store;    *)
(*   SpecProgress  the same with a progress callback that may raise;       *)
(*   SpecSched  start_cyclic_parsing / stop, the awaited cycle reduced to  *)
(*              the ways an await can end (return, raise, cancel): the     *)
(*              scheduler's handlers are checked against each of them,     *)
(*              whichever of them the parser service in use produces;      *)
(*   SpecRun    one start_cyclic_parsing task running run_full_parsing,    *)
(*              with stop() and the cancellation of the task;              *)
(*   SpecPool   the methods of ProxyManager called in any order;           *)
(*   SpecBoot   ProxyManager.initialize at start-up, then the scheduler;   *)
(*   SpecFetch  ProxyManager.initialize, then get_content calls;           *)
(*   SpecManager  ParserManager.start_parsing / stop_parsing over the      *)
(*              scheduler of SpecSched.                                    *)
(***************************************************************************)
EXTENDS Integers, Sequences, FiniteSets, TLC

VARIABLES
    \* ---- DatabaseService
    db,         \* the product table: a set of rows [id, sku]
    wpc,        \* writer -> "idle" | "call" | "insert" | "ret" | "done"
    wprod,      \* writer -> the product of the save_product call in progress
    wpassed,    \* writer -> the call's product_exists pre-check found no row
    wret,       \* writer -> what the last save_product call returned
    wn,         \* writer -> products of the batch handled so far
    wnew,       \* writer -> new_count of the batch
    wlen,       \* writer -> len(products) of the batch being saved
    \* ---- ParserService.run_full_parsing
    served,     \* url -> the outcome the site serves for it ("unknown" until fetched)
    ppc,        \* where run_full_parsing is
    cycle,      \* number of the cycle (1-based), 0 before the first
    bi,         \* the batch loop's index i
    tasks,      \* the gathered coroutines of the batch: <<[url, st, res]>>
    sem,        \* request_semaphore: free permits
    all_links,  \* all_links of the link phase (only its set is ever used)
    todo,       \* unique_links: the list handed to parse_products_batch
    products,   \* all_products of parse_products_batch
    saved,      \* cycle -> saved_count returned by that cycle
    oopSeen,    \* a fetch of the current cycle raised OutOfProxiesException
    progress,   \* the progress_callback calls of the current cycle, in order
    cbRaises,   \* the progress_callback that was set raises an Exception when called
    \* ---- SchedulerService
    is_running, \* SchedulerService.is_running
    spc,        \* caller -> where its start_cyclic_parsing call is
    scyc,       \* caller -> cycles its loop has started
    resCalls,   \* caller -> callback invocations for its current cycle
    errCalls,   \* caller -> error_callback invocations for its current cycle
    lastOut,    \* caller -> how its last cycle ended
    lastRes,    \* caller -> what the last callback invocation was given
    hasCb,      \* caller -> callback argument given (not None)
    hasErrCb,   \* caller -> error_callback argument given (not None)
    cycleCfg,   \* config_obj.parser.cycle
    closed,     \* parser_service.close() has been awaited
    stopped,    \* stop() has been called and has returned since the last start
    stopReq,    \* caller -> stop() set is_running = False during its loop
    \* ---- ProxyManager
    proxy_file,          \* the proxy source: [kind, proxies]
    check_retries,       \* ProxyManager.check_retries
    valid_proxies,       \* ProxyManager.valid_proxies (a list)
    failed_proxies,      \* ProxyManager.failed_proxies (a set)
    current_proxy_index, \* ProxyManager._current_proxy_index
    lpc,        \* where load_and_verify_proxies is: "idle" | "checking" | "sleeping"
    lfor,       \* who awaits the load: "load" | "next" | "random"
    attempt,    \* the loop variable of load_and_verify_proxies
    rounds,     \* gathers of check_proxy finished in the current or last load
    sleeps,     \* asyncio.sleep(check_interval) calls of the current or last load
    health,     \* what the health check of each candidate gave in the last round
    lout,       \* how the last load ended: "none" | "returned" | "no_proxies" | "exhausted"
    sel,        \* what the last selection gave: a proxy, or the error it raised
    rr,         \* what the last get_next_proxy calls gave since valid_proxies was last assigned
    \* ---- HTTPClient.get_content
    gpc,        \* where get_content is: "idle" | "request" | "backoff" | "returned" | "raised"
    gattempt,   \* the loop variable attempt of get_content
    gproxy,     \* the proxy argument of the attempt's session.get
    goutcome,   \* how the last attempt that ended did end
    last_exception, \* get_content's last_exception: the failure it wraps
    waits,      \* the asyncio.sleep(wait_time) arguments of the call so far
    gres,       \* what the call ended with: "none" | "content" | the failure raised
    \* ---- ParserManager
    pmTracker,  \* progress_tracker: "none" | "running" | "stopped" (its _is_running)
    pmTask,     \* current_task: "none" | "active" | "done"
    pmRet       \* what the last start_parsing call returned

writerVars == <<wpc, wprod, wpassed, wret, wn, wnew, wlen>>
storeVars == <<db, writerVars>>
pipeVars  == <<served, ppc, cycle, bi, tasks, sem, all_links, todo, products,
               saved, oopSeen, progress, cbRaises>>
schedVars == <<is_running, spc, scyc, resCalls, errCalls, lastOut, lastRes,
               hasCb, hasErrCb, cycleCfg, closed, stopped, stopReq>>
poolVars  == <<proxy_file, check_retries, valid_proxies, failed_proxies,
               current_proxy_index, lpc, lfor, attempt, rounds, sleeps, health,
               lout, sel, rr>>
fetchVars == <<gpc, gattempt, gproxy, goutcome, last_exception, waits, gres>>
pmVars    == <<pmTracker, pmTask, pmRet>>
vars == <<storeVars, pipeVars, schedVars, poolVars, fetchVars, pmVars>>

(***************************************************************************)
(* Bounds of the model.                                                    *)
(***************************************************************************)
NumSkus == 2          \* distinct SKUs the writers of SpecStore save
MaxBatch == 2         \* longest list given to save_products_batch in SpecStore
NumSeeds == 3         \* len(start_urls)
MaxCycles == 2        \* cycles run one after another
MaxConcurrency == 2   \* config_obj.parser.max_concurrency
MaxCheckRetries == 2  \* largest config_obj.parser.proxy_check_retries
Retries == 4          \* config_obj.parser.retries
BackoffCap == 5       \* the cap of wait_time in get_content
MaxWindow == 3        \* consecutive get_next_proxy calls kept in rr

Min(a, b) == IF a < b THEN a ELSE b

(***************************************************************************)
(* Strings are sequences of tokens: the separators the code splits on are  *)
(* tokens of their own, everything else is an opaque word.                 *)
(***************************************************************************)
Words == <<"a", "b", "c", "d", "e">>

\* s.split(sep)[0]: the tokens before the first sep (all of s without one)
RECURSIVE SplitFirst(_, _)
SplitFirst(s, sep) ==
    IF s = <<>> THEN <<>>
    ELSE IF Head(s) = sep THEN <<>>
    ELSE <<Head(s)>> \o SplitFirst(Tail(s), sep)

\* the tokens after the first sep; only used when sep occurs
RECURSIVE AfterFirst(_, _)
AfterFirst(s, sep) ==
    IF s = <<>> THEN <<>>
    ELSE IF Head(s) = sep THEN Tail(s)
    ELSE AfterFirst(Tail(s), sep)

Has(s, sep) == \E k \in 1..Len(s) : s[k] = sep

\* s.split(sep)[-1]: the tokens after the last sep (all of s without one)
RECURSIVE SplitLast(_, _)
SplitLast(s, sep) ==
    IF Has(s, sep) THEN SplitLast(AfterFirst(s, sep), sep) ELSE s

(***************************************************************************)
(* DatabaseService                                                         *)
(***************************************************************************)
Writers == {"w1", "w2"}

Keys(d) == {r.sku : r \in d}

\* product_exists(sku)
ProductExists(d, sku) == \E r \in d : r.sku = sku

\* ProductDB.sku is Column(unique=True): the commit of a row whose sku is
\* already in the table raises IntegrityError
UniqueViolatedNoConstraint(d, sku) == FALSE
UniqueViolated(d, sku) == \E r \in d : r.sku = sku

\* session.add(db_product); session.commit(): id is autoincremented
InsertRow(d, p) == d \cup {[id |-> Cardinality(d) + 1, sku |-> p.sku]}

\* save_product(product) run without interruption: <<return value, table>>
SaveProductNoDedup(d, p) ==
    IF ~p.ok THEN <<FALSE, d>>
    ELSE <<TRUE, InsertRow(d, p)>>
SaveProductCountsExisting(d, p) ==
    IF ProductExists(d, p.sku) THEN <<TRUE, d>>
    ELSE IF ~p.ok THEN <<FALSE, d>>
    ELSE <<TRUE, InsertRow(d, p)>>
SaveProduct(d, p) ==
    IF ProductExists(d, p.sku) THEN <<FALSE, d>>
    ELSE IF ~p.ok THEN <<FALSE, d>>
    ELSE IF UniqueViolated(d, p.sku) THEN <<FALSE, d>>
    ELSE <<TRUE, InsertRow(d, p)>>

\* save_products_batch(products) run without interruption:
\* <<new_count, duplicate_count, table>>
RECURSIVE SaveProductsBatch(_, _)
SaveProductsBatch(d, ps) ==
    IF ps = <<>> THEN <<0, 0, d>>
    ELSE LET r == SaveProduct(d, Head(ps))
             rest == SaveProductsBatch(r[2], Tail(ps))
         IN <<rest[1] + (IF r[1] THEN 1 ELSE 0),
              rest[2] + (IF r[1] THEN 0 ELSE 1),
              rest[3]>>

\* the products the writers of SpecStore save: ok is "to_csv_dict() is not empty"
StoreProducts == [sku : {<<Words[k]>> : k \in 1..NumSkus}, ok : BOOLEAN]
NoProduct == [sku |-> <<>>, ok |-> FALSE]

StoreInit ==
    /\ db = {}
    /\ wpc = [w \in Writers |-> "idle"]
    /\ wprod = [w \in Writers |-> NoProduct]
    /\ wpassed = [w \in Writers |-> FALSE]
    /\ wret = [w \in Writers |-> FALSE]
    /\ wn = [w \in Writers |-> 0]
    /\ wnew = [w \in Writers |-> 0]
    /\ wlen = [w \in Writers |-> 0]

\* a writer calls save_products_batch with n products (save_product is n = 1)
\* and enters the first save_product call
CallBatch(w) ==
    /\ wpc[w] \in {"idle", "done"}
    /\ \E n \in 1..MaxBatch :
         /\ wlen' = [wlen EXCEPT ![w] = n]
         /\ wn' = [wn EXCEPT ![w] = 0]
         /\ wnew' = [wnew EXCEPT ![w] = 0]
    /\ wpc' = [wpc EXCEPT ![w] = "call"]
    /\ UNCHANGED <<db, wprod, wpassed, wret>>
    /\ UNCHANGED <<pipeVars, schedVars, poolVars, fetchVars, pmVars>>

\* save_product up to the commit: the pre-check and to_csv_dict
SaveCheck(w) ==
    /\ wpc[w] = "call"
    /\ \E p \in StoreProducts :
         /\ wprod' = [wprod EXCEPT ![w] = p]
         /\ IF ProductExists(db, p.sku)
            THEN /\ wpassed' = [wpassed EXCEPT ![w] = FALSE]
                 /\ wret' = [wret EXCEPT ![w] = FALSE]
                 /\ wpc' = [wpc EXCEPT ![w] = "ret"]
            ELSE IF ~p.ok
            THEN /\ wpassed' = [wpassed EXCEPT ![w] = TRUE]
                 /\ wret' = [wret EXCEPT ![w] = FALSE]
                 /\ wpc' = [wpc EXCEPT ![w] = "ret"]
            ELSE /\ wpassed' = [wpassed EXCEPT ![w] = TRUE]
                 /\ wret' = wret
                 /\ wpc' = [wpc EXCEPT ![w] = "insert"]
    /\ UNCHANGED <<db, wn, wnew, wlen>>
    /\ UNCHANGED <<pipeVars, schedVars, poolVars, fetchVars, pmVars>>

\* session.add + session.commit, or the IntegrityError handler
SaveCommit(w) ==
    /\ wpc[w] = "insert"
    /\ IF UniqueViolated(db, wprod[w].sku)
       THEN /\ wret' = [wret EXCEPT ![w] = FALSE]
            /\ db' = db
       ELSE /\ wret' = [wret EXCEPT ![w] = TRUE]
            /\ db' = InsertRow(db, wprod[w])
    /\ wpc' = [wpc EXCEPT ![w] = "ret"]
    /\ UNCHANGED <<wprod, wpassed, wn, wnew, wlen>>
    /\ UNCHANGED <<pipeVars, schedVars, poolVars, fetchVars, pmVars>>

\* save_products_batch counts the return value and goes to the next product
BatchNext(w) ==
    /\ wpc[w] = "ret"
    /\ wn' = [wn EXCEPT ![w] = @ + 1]
    /\ wnew' = [wnew EXCEPT ![w] = @ + (IF wret[w] THEN 1 ELSE 0)]
    /\ wpc' = [wpc EXCEPT ![w] = IF wn[w] + 1 < wlen[w] THEN "call" ELSE "done"]
    /\ UNCHANGED <<db, wprod, wpassed, wret, wlen>>
    /\ UNCHANGED <<pipeVars, schedVars, poolVars, fetchVars, pmVars>>

(***************************************************************************)
(* ParserService.run_full_parsing                                          *)
(***************************************************************************)
\* start_urls: the seeds are numbered
StartUrls == [s \in 1..NumSeeds |-> s]

\* the item URLs the listings name: the usual shape, the same with a
\* further query parameter, and one without "?id="
ItemUrls ==
    << <<"/", "details", ".", "html", "?id=", "a">>,
       <<"/", "details", ".", "html", "?id=", "b", "&", "x">>,
       <<"/", "c", ".", "html">> >>
NumLinks == Len(ItemUrls)
Link(k) == ItemUrls[k]

\* the links the listing page of seed s names (parse_for_links on its page):
\* neighbouring seeds share a link
SeedLinks(s) == {((s - 1) % NumLinks) + 1, (s % NumLinks) + 1}

\* what the site serves for a URL, the same at every fetch of it
SeedOutcomes == {"ok", "fail", "oop"}
LinkOutcomes == {"ok", "excluded", "fail", "oop"}

\* parse_for_data: "sku": self.url.split("/")[-1].split(".")[0]
ParserSku(u) == SplitFirst(SplitLast(u, "/"), ".")

\* _filter_links_by_existing_skus: sku = link.split("?id=")[1].split("&")[0]
FilterKey(u) == SplitFirst(SplitFirst(AfterFirst(u, "?id="), "?id="), "&")

\* _filter_links_by_existing_skus(links): a link without "?id=" raises
\* IndexError and the handler returns all the links
FilterLinks(links, existing) ==
    IF \E k \in links : ~Has(Link(k), "?id=") THEN links
    ELSE {k \in links : FilterKey(Link(k)) # <<>>
                        /\ FilterKey(Link(k)) \notin existing}

\* the ProductModel parse_product_card returns for link k
ProductOf(k, outcome) ==
    [sku |-> ParserSku(Link(k)), ok |-> (outcome = "ok"), url |-> k]

\* urls[i : i + max_concurrency]
Batch(urls, i) == SubSeq(urls, i + 1, Min(i + MaxConcurrency, Len(urls)))

\* tasks = [self.parse_...(url, parser_class) for url in batch_urls]
MkTasks(urls) ==
    [j \in 1..Len(urls) |-> [url |-> urls[j], st |-> "waiting", res |-> "none"]]

\* asyncio.Semaphore: acquire and release of one permit
SemAcquireNoCount(n) == n
SemAcquire(n) == n - 1
SemRelease(n) == n + 1

\* "await asyncio.gather(*tasks, ...)" returns when every task has ended
AllDoneFirst == \E j \in 1..Len(tasks) : tasks[j].st = "done"
AllDone == \A j \in 1..Len(tasks) : tasks[j].st = "done"
InFlight == Cardinality({j \in 1..Len(tasks) : tasks[j].st = "inflight"})

\* list(set(all_links)): the links once each, in any order
Orders(S) ==
    {f \in [1..Cardinality(S) -> S] : \A a, b \in 1..Cardinality(S) : f[a] = f[b] => a = b}

\* unique_links = list(set(all_links)) in run_full_parsing
UniqueLinksRepeated(S) ==
    {f \in [1..Cardinality(S) + 1 -> S] : \A k \in S : \E i \in DOMAIN f : f[i] = k}
UniqueLinks(S) == Orders(S)

\* parse_links_batch after the gather: the lists of the seeds whose task
\* returned one, made unique and filtered
BatchLinks ==
    FilterLinks(UNION {SeedLinks(tasks[j].url) :
                         j \in {x \in 1..Len(tasks) : tasks[x].res = "ok"}},
                Keys(db))

\* parse_products_batch after the gather: the ProductModel results, in task order
BatchProductsAborts(ts) ==
    IF \E j \in 1..Len(ts) : ts[j].res \notin {"ok", "excluded"} THEN <<>>
    ELSE [j \in 1..Len(ts) |-> ProductOf(ts[j].url, ts[j].res)]

RECURSIVE BatchProducts(_)
BatchProducts(ts) ==
    IF ts = <<>> THEN <<>>
    ELSE (IF Head(ts).res \in {"ok", "excluded"}
          THEN <<ProductOf(Head(ts).url, Head(ts).res)>> ELSE <<>>)
         \o BatchProducts(Tail(ts))

\* _update_progress: "except Exception as e: ...error(...)", nothing is
\* raised to the caller whether the callback raises or not
ProgressPropagatesRaised(raises) == raises
ProgressPropagates(raises) == FALSE

ProgressCallSwapped(processed, found, total) ==
    [processed |-> found, found |-> processed, total |-> total]

\* the arguments of one progress_callback call
ProgressCall(processed, found, total) ==
    [processed |-> processed, found |-> found, total |-> total]

\* the pipeline before its first cycle; cbs: whether the progress callback
\* that was set can be one that raises
PipeInitWith(cbs) ==
    /\ served = [seed |-> [s \in 1..NumSeeds |-> "unknown"],
                 link |-> [k \in 1..NumLinks |-> "unknown"]]
    /\ ppc = "idle"
    /\ cycle = 0
    /\ bi = 0
    /\ tasks = <<>>
    /\ sem = MaxConcurrency
    /\ all_links = {}
    /\ todo = <<>>
    /\ products = <<>>
    /\ saved = <<>>
    /\ oopSeen = FALSE
    /\ progress = <<>>
    /\ cbRaises \in cbs

PipeInit == PipeInitWith({FALSE})

\* run_full_parsing from its call to the gather of the first link batch
BeginCycle ==
    /\ ppc \in {"idle", "done", "cancelled"}
    /\ cycle < MaxCycles
    /\ cycle' = cycle + 1
    /\ ppc' = "links"
    /\ bi' = 0
    /\ tasks' = MkTasks(Batch(StartUrls, 0))
    /\ all_links' = {}
    /\ todo' = <<>>
    /\ products' = <<>>
    /\ oopSeen' = FALSE
    /\ progress' = <<>>
    /\ UNCHANGED <<served, sem, saved, db, cbRaises>>

\* run_full_parsing is called and reaches the gather of the first link batch
StartCycle ==
    /\ BeginCycle
    /\ UNCHANGED <<writerVars, schedVars, poolVars, fetchVars, pmVars>>

\* a task enters "async with self.request_semaphore" and starts get_content
Acquire(j) ==
    /\ ppc \in {"links", "products"}
    /\ tasks[j].st = "waiting"
    /\ sem > 0
    /\ sem' = SemAcquire(sem)
    /\ tasks' = [tasks EXCEPT ![j].st = "inflight"]
    /\ UNCHANGED <<served, ppc, cycle, bi, all_links, todo, products, saved,
                   oopSeen, db, progress, cbRaises>>
    /\ UNCHANGED <<writerVars, schedVars, poolVars, fetchVars, pmVars>>

\* get_content ends: the body, a RequestException or OutOfProxiesException;
\* parse_links_from_url / parse_product_card returns or raises, and the
\* semaphore is released
FetchDone(j) ==
    /\ ppc \in {"links", "products"}
    /\ tasks[j].st = "inflight"
    /\ LET kind == IF ppc = "links" THEN "seed" ELSE "link"
           u == tasks[j].url
       IN \E o \in (IF kind = "seed" THEN SeedOutcomes ELSE LinkOutcomes) :
            /\ served[kind][u] \in {"unknown", o}
            /\ served' = [served EXCEPT ![kind][u] = o]
            /\ tasks' = [tasks EXCEPT ![j].st = "done", ![j].res = o]
            /\ oopSeen' = (oopSeen \/ o = "oop")
    /\ sem' = SemRelease(sem)
    /\ UNCHANGED <<ppc, cycle, bi, all_links, todo, products, saved, db,
                   progress, cbRaises>>
    /\ UNCHANGED <<writerVars, schedVars, poolVars, fetchVars, pmVars>>

\* the gather of a link batch returns and a further batch of seeds follows
LinksGatheredMore ==
    /\ ppc = "links" /\ AllDone
    /\ bi + MaxConcurrency < Len(StartUrls)
    /\ all_links' = all_links \cup BatchLinks
    /\ bi' = bi + MaxConcurrency
    /\ tasks' = MkTasks(Batch(StartUrls, bi + MaxConcurrency))
    /\ UNCHANGED <<served, ppc, cycle, sem, todo, products, saved, oopSeen, db,
                   progress, cbRaises>>
    /\ UNCHANGED <<writerVars, schedVars, poolVars, fetchVars, pmVars>>

LinksGatheredLastUnguarded ==
    /\ ppc = "links" /\ AllDone
    /\ bi + MaxConcurrency >= Len(StartUrls)
    /\ all_links' = all_links \cup BatchLinks
    /\ \E order \in UniqueLinks(all_links') :
         /\ todo' = order
         /\ tasks' = MkTasks(Batch(order, 0))
    /\ bi' = 0
    /\ ppc' = "products"
    /\ progress' = <<ProgressCall(0, 0, Len(todo'))>>
    /\ UNCHANGED <<served, cycle, sem, products, saved, oopSeen, db, cbRaises>>
    /\ UNCHANGED <<writerVars, schedVars, poolVars, fetchVars, pmVars>>

\* the gather of the last link batch returns with links to parse:
\* parse_products_batch reaches the gather of its first batch
LinksGatheredLast ==
    /\ ppc = "links" /\ AllDone
    /\ bi + MaxConcurrency >= Len(StartUrls)
    /\ all_links' = all_links \cup BatchLinks
    /\ all_links' # {}
    /\ \E order \in UniqueLinks(all_links') :
         /\ todo' = order
         /\ tasks' = MkTasks(Batch(order, 0))
    /\ bi' = 0
    /\ ppc' = "products"
    /\ progress' = <<ProgressCall(0, 0, Len(todo'))>>
    /\ UNCHANGED <<served, cycle, sem, products, saved, oopSeen, db, cbRaises>>
    /\ UNCHANGED <<writerVars, schedVars, poolVars, fetchVars, pmVars>>

\* the gather of the last link batch returns without any link to parse:
\* save_products_batch([]) and the return
LinksGatheredNone ==
    /\ ppc = "links" /\ AllDone
    /\ bi + MaxConcurrency >= Len(StartUrls)
    /\ all_links' = all_links \cup BatchLinks
    /\ all_links' = {}
    /\ todo' = <<>>
    /\ tasks' = <<>>
    /\ saved' = Append(saved, SaveProductsBatch(db, <<>>)[1])
    /\ db' = SaveProductsBatch(db, <<>>)[3]
    /\ ppc' = "done"
    /\ progress' = <<ProgressCall(0, 0, 0), ProgressCall(0, 0, 0)>>
    /\ UNCHANGED <<served, cycle, bi, sem, products, oopSeen, cbRaises>>
    /\ UNCHANGED <<writerVars, schedVars, poolVars, fetchVars, pmVars>>

\* an exception leaves parse_products_batch: "except Exception" of
\* run_full_parsing logs it, products stays [], save_products_batch([])
ProductsAborted ==
    /\ products' = <<>>
    /\ saved' = Append(saved, SaveProductsBatch(db, <<>>)[1])
    /\ db' = SaveProductsBatch(db, <<>>)[3]
    /\ tasks' = <<>>
    /\ ppc' = "done"
    /\ UNCHANGED bi

\* the gather of a product batch returns, the progress callback is called
\* and a further batch follows
ProductsGatheredMore ==
    /\ ppc = "products" /\ AllDone
    /\ bi + MaxConcurrency < Len(todo)
    /\ progress' = Append(progress,
                          ProgressCall(bi + Len(tasks),
                                       Len(products \o BatchProducts(tasks)),
                                       Len(todo)))
    /\ IF ProgressPropagates(cbRaises)
       THEN ProductsAborted
       ELSE /\ products' = products \o BatchProducts(tasks)
            /\ bi' = bi + MaxConcurrency
            /\ tasks' = MkTasks(Batch(todo, bi + MaxConcurrency))
            /\ UNCHANGED <<ppc, saved, db>>
    /\ UNCHANGED <<served, cycle, sem, all_links, todo, oopSeen, cbRaises>>
    /\ UNCHANGED <<writerVars, schedVars, poolVars, fetchVars, pmVars>>

\* the gather of the last product batch returns, the progress callback is
\* called: save_products_batch and the return of (products, None, saved_count)
ProductsGatheredLast ==
    /\ ppc = "products" /\ AllDone
    /\ bi + MaxConcurrency >= Len(todo)
    /\ progress' = Append(progress,
                          ProgressCall(bi + Len(tasks),
                                       Len(products \o BatchProducts(tasks)),
                                       Len(todo)))
    /\ IF ProgressPropagates(cbRaises)
       THEN ProductsAborted
       ELSE /\ products' = products \o BatchProducts(tasks)
            /\ saved' = Append(saved, SaveProductsBatch(db, products')[1])
            /\ db' = SaveProductsBatch(db, products')[3]
            /\ tasks' = <<>>
            /\ ppc' = "done"
            /\ UNCHANGED bi
    /\ UNCHANGED <<served, cycle, sem, all_links, todo, oopSeen, cbRaises>>
    /\ UNCHANGED <<writerVars, schedVars, poolVars, fetchVars, pmVars>>

(***************************************************************************)
(* SchedulerService                                                        *)
(***************************************************************************)
Callers == {"t1", "t2"}

\* what the awaited run_full_parsing returned, as the callback sees it:
\* (products, saved_count) with or without products
CycleResults == {"empty", "full"}

SchedInit ==
    /\ is_running = FALSE
    /\ spc = [c \in Callers |-> "idle"]
    /\ scyc = [c \in Callers |-> 0]
    /\ resCalls = [c \in Callers |-> 0]
    /\ errCalls = [c \in Callers |-> 0]
    /\ lastOut = [c \in Callers |-> "none"]
    /\ lastRes = [c \in Callers |-> "none"]
    /\ hasCb = [c \in Callers |-> FALSE]
    /\ hasErrCb = [c \in Callers |-> FALSE]
    /\ closed = FALSE
    /\ stopped = FALSE
    /\ stopReq = [c \in Callers |-> FALSE]

\* "if self.is_running: ... return"
AlreadyRunningIgnored == FALSE
AlreadyRunning == is_running

\* start_cyclic_parsing is called: the refusal, or is_running = True and the
\* loop up to the await of the first run_full_parsing
StartLoop(c) ==
    /\ is_running' = TRUE
    /\ \E cb \in BOOLEAN : \E ecb \in BOOLEAN :
         /\ hasCb' = [hasCb EXCEPT ![c] = cb]
         /\ hasErrCb' = [hasErrCb EXCEPT ![c] = ecb]
    /\ spc' = [spc EXCEPT ![c] = "cycle"]
    /\ scyc' = [scyc EXCEPT ![c] = 1]
    /\ resCalls' = [resCalls EXCEPT ![c] = 0]
    /\ errCalls' = [errCalls EXCEPT ![c] = 0]
    /\ lastOut' = [lastOut EXCEPT ![c] = "none"]
    /\ lastRes' = [lastRes EXCEPT ![c] = "none"]
    /\ closed' = FALSE
    /\ stopped' = FALSE
    /\ stopReq' = [stopReq EXCEPT ![c] = FALSE]

StartCall(c) ==
    /\ spc[c] \in {"idle", "finished", "refused"}
    /\ IF AlreadyRunning
       THEN /\ spc' = [spc EXCEPT ![c] = "refused"]
            /\ UNCHANGED <<is_running, scyc, resCalls, errCalls, lastOut,
                           lastRes, hasCb, hasErrCb, closed, stopped, stopReq>>
       ELSE StartLoop(c)
    /\ UNCHANGED <<cycleCfg, storeVars, pipeVars, poolVars, fetchVars, pmVars>>

\* the loop after the try of one cycle: "if not cycle: break", the sleep
\* when still running, else the loop condition fails; leaving the loop runs
\* "finally: self.is_running = False"
AfterCycleRepeats(c) ==
    IF is_running
    THEN /\ spc' = [spc EXCEPT ![c] = "sleep"]
         /\ is_running' = is_running
    ELSE /\ spc' = [spc EXCEPT ![c] = "finished"]
         /\ is_running' = FALSE
AfterCycle(c) ==
    IF ~cycleCfg
    THEN /\ spc' = [spc EXCEPT ![c] = "finished"]
         /\ is_running' = FALSE
    ELSE IF is_running
    THEN /\ spc' = [spc EXCEPT ![c] = "sleep"]
         /\ is_running' = is_running
    ELSE /\ spc' = [spc EXCEPT ![c] = "finished"]
         /\ is_running' = FALSE

\* run_full_parsing returns: callback((result[0], result[2]))
CycleReturns(c) ==
    /\ spc[c] = "cycle"
    /\ \E r \in CycleResults :
         IF hasCb[c]
         THEN /\ resCalls' = [resCalls EXCEPT ![c] = @ + 1]
              /\ lastRes' = [lastRes EXCEPT ![c] = r]
         ELSE UNCHANGED <<resCalls, lastRes>>
    /\ lastOut' = [lastOut EXCEPT ![c] = "ok"]
    /\ AfterCycle(c)
    /\ UNCHANGED <<scyc, errCalls, hasCb, hasErrCb, cycleCfg, closed,
                   stopped, stopReq, storeVars, pipeVars, poolVars, fetchVars, pmVars>>

\* the callbacks of the OutOfProxiesException handler
OutOfProxiesCallbacksBoth(c) ==
    /\ errCalls' = [errCalls EXCEPT ![c] = @ + (IF hasErrCb[c] THEN 1 ELSE 0)]
    /\ resCalls' = [resCalls EXCEPT ![c] = @ + (IF hasCb[c] THEN 1 ELSE 0)]
    /\ lastRes' = [lastRes EXCEPT ![c] =
                     IF hasCb[c] THEN "empty"
                     ELSE IF hasErrCb[c] THEN "error" ELSE @]
OutOfProxiesCallbacks(c) ==
    IF hasErrCb[c]
    THEN /\ errCalls' = [errCalls EXCEPT ![c] = @ + 1]
         /\ lastRes' = [lastRes EXCEPT ![c] = "error"]
         /\ UNCHANGED resCalls
    ELSE IF hasCb[c]
    THEN /\ resCalls' = [resCalls EXCEPT ![c] = @ + 1]
         /\ lastRes' = [lastRes EXCEPT ![c] = "empty"]
         /\ UNCHANGED errCalls
    ELSE UNCHANGED <<resCalls, errCalls, lastRes>>

\* the await raises OutOfProxiesException: error_callback(e), or
\* callback(([], 0)) without one, then "break" and the finally
CycleOutOfProxiesNoBreak(c) ==
    /\ spc[c] = "cycle"
    /\ OutOfProxiesCallbacks(c)
    /\ lastOut' = [lastOut EXCEPT ![c] = "oop"]
    /\ AfterCycle(c)
    /\ UNCHANGED <<scyc, hasCb, hasErrCb, cycleCfg, closed, stopped, stopReq,
                   storeVars, pipeVars, poolVars, fetchVars, pmVars>>
CycleOutOfProxies(c) ==
    /\ spc[c] = "cycle"
    /\ OutOfProxiesCallbacks(c)
    /\ lastOut' = [lastOut EXCEPT ![c] = "oop"]
    /\ spc' = [spc EXCEPT ![c] = "finished"]
    /\ is_running' = FALSE
    /\ UNCHANGED <<scyc, hasCb, hasErrCb, cycleCfg, closed, stopped, stopReq,
                   storeVars, pipeVars, poolVars, fetchVars, pmVars>>

\* the await raises another Exception: callback(([], 0)), and the loop goes on
CycleFailsStops(c) ==
    /\ spc[c] = "cycle"
    /\ IF hasCb[c]
       THEN /\ resCalls' = [resCalls EXCEPT ![c] = @ + 1]
            /\ lastRes' = [lastRes EXCEPT ![c] = "empty"]
       ELSE UNCHANGED <<resCalls, lastRes>>
    /\ lastOut' = [lastOut EXCEPT ![c] = "err"]
    /\ spc' = [spc EXCEPT ![c] = "finished"]
    /\ is_running' = FALSE
    /\ UNCHANGED <<scyc, errCalls, hasCb, hasErrCb, cycleCfg, closed,
                   stopped, stopReq, storeVars, pipeVars, poolVars, fetchVars, pmVars>>
CycleFails(c) ==
    /\ spc[c] = "cycle"
    /\ IF hasCb[c]
       THEN /\ resCalls' = [resCalls EXCEPT ![c] = @ + 1]
            /\ lastRes' = [lastRes EXCEPT ![c] = "empty"]
       ELSE UNCHANGED <<resCalls, lastRes>>
    /\ lastOut' = [lastOut EXCEPT ![c] = "err"]
    /\ AfterCycle(c)
    /\ UNCHANGED <<scyc, errCalls, hasCb, hasErrCb, cycleCfg, closed,
                   stopped, stopReq, storeVars, pipeVars, poolVars, fetchVars, pmVars>>

\* asyncio.sleep(interval) ends: "while self.is_running" starts the next
\* cycle or leaves the loop
WakeLoop(c) ==
    /\ spc[c] = "sleep"
    /\ IF is_running
       THEN /\ scyc[c] < MaxCycles
            /\ spc' = [spc EXCEPT ![c] = "cycle"]
            /\ scyc' = [scyc EXCEPT ![c] = @ + 1]
            /\ resCalls' = [resCalls EXCEPT ![c] = 0]
            /\ errCalls' = [errCalls EXCEPT ![c] = 0]
            /\ UNCHANGED is_running
       ELSE /\ spc' = [spc EXCEPT ![c] = "finished"]
            /\ is_running' = FALSE
            /\ UNCHANGED <<scyc, resCalls, errCalls>>
    /\ UNCHANGED <<lastOut, lastRes, hasCb, hasErrCb, cycleCfg, closed,
                   stopped, stopReq>>

Wake(c) ==
    /\ WakeLoop(c)
    /\ UNCHANGED <<storeVars, pipeVars, poolVars, fetchVars, pmVars>>

\* the task is cancelled at its await (the cycle or the sleep):
\* "except asyncio.CancelledError", then the finally
CancelLoopAbsorbed(c) ==
    /\ spc[c] \in {"cycle", "sleep"}
    /\ spc' = [spc EXCEPT ![c] = "finished"]
    /\ lastOut' = [lastOut EXCEPT ![c] = IF spc[c] = "cycle" THEN "cancelled" ELSE @]
    /\ is_running' = FALSE
    /\ resCalls' = [resCalls EXCEPT ![c] = @ + 1]
    /\ lastRes' = [lastRes EXCEPT ![c] = "empty"]
    /\ UNCHANGED <<scyc, errCalls, hasCb, hasErrCb, cycleCfg, closed, stopped,
                   stopReq>>
CancelLoop(c) ==
    /\ spc[c] \in {"cycle", "sleep"}
    /\ spc' = [spc EXCEPT ![c] = "finished"]
    /\ lastOut' = [lastOut EXCEPT ![c] = IF spc[c] = "cycle" THEN "cancelled" ELSE @]
    /\ is_running' = FALSE
    /\ UNCHANGED <<scyc, resCalls, errCalls, lastRes, hasCb, hasErrCb, cycleCfg,
                   closed, stopped, stopReq>>

Cancelled(c) ==
    /\ CancelLoop(c)
    /\ UNCHANGED <<storeVars, pipeVars, poolVars, fetchVars, pmVars>>

\* stop(): "if not self.is_running: return"; else is_running = False
\* (current_task is never set, so nothing is cancelled) and
\* parser_service.close()
StopCall ==
    /\ IF ~is_running
       THEN UNCHANGED <<is_running, closed, stopReq>>
       ELSE /\ is_running' = FALSE
            /\ closed' = TRUE
            /\ stopReq' = [c \in Callers |->
                             stopReq[c] \/ spc[c] \in {"cycle", "sleep"}]
    /\ stopped' = TRUE
    /\ UNCHANGED <<spc, scyc, resCalls, errCalls, lastOut, lastRes, hasCb,
                   hasErrCb, cycleCfg>>

Stop ==
    /\ StopCall
    /\ UNCHANGED <<storeVars, pipeVars, poolVars, fetchVars, pmVars>>

(***************************************************************************)
(* ParserManager                                                           *)
(***************************************************************************)
PmInit ==
    /\ pmTracker = "none"
    /\ pmTask = "none"
    /\ pmRet = "none"

\* the parameters of SchedulerService.start_cyclic_parsing
SchedulerParams ==
    {"start_urls", "callback", "error_callback", "parser_class",
     "progress_callback"}

\* the keyword arguments start_parsing passes to it
StartParsingKwargs ==
    {"start_urls", "callback", "error_callback", "parser_class",
     "progress_callback", "cycle_start_callback"}

\* calling a function with a keyword it does not take raises TypeError
\* before the coroutine object exists
CallBinds(kwargs) == kwargs \subseteq SchedulerParams

\* ProgressTracker.is_running(): _is_running is set by start_tracking and
\* cleared by stop_tracking only
TrackerIsRunning == pmTracker = "running"

\* start_parsing(chat_id): the two refusals, the check of the URLs, the new
\* ProgressTracker and start_tracking, then
\* create_task(start_cyclic_parsing(...)); an Exception of the try returns
\* the error text
StartParsing ==
    /\ IF TrackerIsRunning
       THEN /\ pmRet' = "already_tracking"
            /\ UNCHANGED <<pmTracker, pmTask>>
       ELSE IF pmTask = "active"
       THEN /\ pmRet' = "already_started"
            /\ UNCHANGED <<pmTracker, pmTask>>
       ELSE \E urlsValid \in BOOLEAN :
              IF ~urlsValid
              THEN /\ pmRet' = "bad_url"
                   /\ UNCHANGED <<pmTracker, pmTask>>
              ELSE /\ pmTracker' = "running"
                   /\ IF CallBinds(StartParsingKwargs)
                      THEN /\ pmTask' = "active"
                           /\ pmRet' = "started"
                      ELSE /\ pmTask' = pmTask
                           /\ pmRet' = "error"
    /\ UNCHANGED <<storeVars, pipeVars, schedVars, poolVars, fetchVars>>

\* stop_parsing(): the task is cancelled and awaited, stop_tracking,
\* scheduler.stop()
StopParsing ==
    /\ pmTask' = IF pmTask = "active" THEN "done" ELSE pmTask
    /\ pmTracker' = IF pmTracker = "running" THEN "stopped" ELSE pmTracker
    /\ pmRet' = pmRet
    /\ StopCall
    /\ UNCHANGED <<storeVars, pipeVars, poolVars, fetchVars>>

(***************************************************************************)
(* ProxyManager                                                            *)
(***************************************************************************)
\* the proxies a proxy file can name
ProxyNames == <<"p1", "p2">>
NumProxies == Len(ProxyNames)
Proxies == {ProxyNames[k] : k \in 1..NumProxies}

\* the proxy source: no file, a file that cannot be read, or a file naming
\* the first k proxies (its non-empty lines that are not comments)
ProxyFiles ==
    {[kind |-> "absent", proxies |-> <<>>],
     [kind |-> "unreadable", proxies |-> <<>>]}
    \cup {[kind |-> "present", proxies |-> SubSeq(ProxyNames, 1, k)] :
            k \in 0..NumProxies}

\* what the health-check request of check_proxy can give: a response with a
\* status below 300, a 3xx response that is not a followed redirect, a
\* status of 400 or above, a ClientError, a timeout
Health == {"2xx", "3xx", "4xx5xx", "client_error", "timeout"}

\* check_proxy returns proxy_string when response.raise_for_status() does
\* not raise: it raises ClientResponseError for a status of 400 or above
CheckPassedAlways(h) == TRUE
CheckPassed(h) == h \in {"2xx", "3xx"}

\* "except ClientResponseError: ... self.mark_proxy_as_failed(proxy_string)"
CheckMarksFailed(h) == h = "4xx5xx"

\* [proxy for proxy in results if proxy is not None], from candidate k on
RECURSIVE VerifiedFrom(_, _, _)
VerifiedFrom(cands, h, k) ==
    IF k > Len(cands) THEN <<>>
    ELSE (IF CheckPassed(h[k]) THEN <<cands[k]>> ELSE <<>>)
         \o VerifiedFrom(cands, h, k + 1)

\* random.shuffle(self.valid_proxies): the orders it can leave
Shuffles(seq) ==
    {[i \in 1..Len(seq) |-> seq[f[i]]] : f \in Orders(1..Len(seq))}

InList(seq, p) == \E k \in 1..Len(seq) : seq[k] = p

\* list.remove(p): the list without the first occurrence of p
RECURSIVE Remove(_, _)
Remove(seq, p) ==
    IF seq = <<>> THEN <<>>
    ELSE IF Head(seq) = p THEN Tail(seq)
    ELSE <<Head(seq)>> \o Remove(Tail(seq), p)

\* get_next_proxy after its load: valid_proxies[index], then the index moves
NextOf(vp, idx) ==
    IF idx < Len(vp)
    THEN [res |-> vp[idx + 1], idx |-> (idx + 1) % Len(vp)]
    ELSE [res |-> "IndexError", idx |-> idx]

\* get_random_proxy after its load: random.choice(valid_proxies)
RandomOf(vp) ==
    IF vp = <<>> THEN {"IndexError"} ELSE {vp[k] : k \in 1..Len(vp)}

PoolInit ==
    /\ valid_proxies = <<>>
    /\ failed_proxies = {}
    /\ current_proxy_index = 0
    /\ lpc = "idle"
    /\ lfor = "load"
    /\ attempt = 0
    /\ rounds = 0
    /\ sleeps = 0
    /\ health = <<>>
    /\ lout = "none"
    /\ sel = "none"
    /\ rr = <<>>

\* HTTPClient.__init__: no get_content call yet
FetchInit ==
    /\ gpc = "idle"
    /\ gattempt = 0
    /\ gproxy = "none"
    /\ goutcome = "none"
    /\ last_exception = "none"
    /\ waits = <<>>
    /\ gres = "none"

\* a program that has no proxy file and makes no use of the pool
NoPool ==
    /\ PoolInit
    /\ FetchInit
    /\ proxy_file = [kind |-> "absent", proxies |-> <<>>]
    /\ check_retries = 1

\* the record of the last MaxWindow get_next_proxy calls, with one more
Logged(log, res) ==
    IF Len(log) >= MaxWindow THEN Append(Tail(log), res) ELSE Append(log, res)

\* the await of load_and_verify_proxies ends and its caller goes on: the
\* exception passes through get_next_proxy / get_random_proxy, a return is
\* followed by the selection; log is the record of calls on the list vp
Resume(who, raised, vp, log) ==
    IF who = "load" THEN rr' = log /\ UNCHANGED <<sel, current_proxy_index>>
    ELSE IF raised
    THEN sel' = "OutOfProxies" /\ rr' = log /\ UNCHANGED current_proxy_index
    ELSE IF who = "next"
    THEN /\ sel' = NextOf(vp, current_proxy_index).res
         /\ current_proxy_index' = NextOf(vp, current_proxy_index).idx
         /\ rr' = Logged(log, NextOf(vp, current_proxy_index).res)
    ELSE /\ sel' \in RandomOf(vp)
         /\ rr' = log
         /\ UNCHANGED current_proxy_index

\* load_and_verify_proxies up to its first await: the file is absent or
\* cannot be read (empty pool, return), names no proxy (raise), or the first
\* round of check_proxy tasks is gathered
LoadBegin(who) ==
    /\ lpc = "idle"
    /\ lfor' = who
    /\ attempt' = 0
    /\ rounds' = 0
    /\ sleeps' = 0
    /\ IF proxy_file.kind \in {"absent", "unreadable"}
       THEN /\ valid_proxies' = <<>>
            /\ lout' = "returned"
            /\ lpc' = "idle"
            /\ Resume(who, FALSE, <<>>, <<>>)
       ELSE IF proxy_file.proxies = <<>>
       THEN /\ valid_proxies' = <<>>
            /\ lout' = "no_proxies"
            /\ lpc' = "idle"
            /\ Resume(who, TRUE, <<>>, <<>>)
       ELSE IF check_retries <= 0
       THEN /\ valid_proxies' = valid_proxies
            /\ lout' = "returned"
            /\ lpc' = "idle"
            /\ Resume(who, FALSE, valid_proxies, rr)
       ELSE /\ valid_proxies' = valid_proxies
            /\ lout' = "none"
            /\ lpc' = "checking"
            /\ UNCHANGED <<sel, current_proxy_index, rr>>
    /\ UNCHANGED <<proxy_file, check_retries, failed_proxies, health>>

\* load_and_verify_proxies is called (initialize, check_and_refresh_proxies)
LoadAndVerify ==
    /\ LoadBegin("load")
    /\ UNCHANGED <<storeVars, pipeVars, schedVars, fetchVars, pmVars>>

\* "elif attempt < self.check_retries - 1": a further round follows the sleep
MoreRounds == attempt < check_retries - 1

\* the gather of one round returns: the verified set replaces valid_proxies;
\* not empty: shuffle and break; empty: sleep, or raise after the last round
RoundEnd ==
    /\ lpc = "checking"
    /\ \E h \in [1..Len(proxy_file.proxies) -> Health] :
         LET cands == proxy_file.proxies
             passed == VerifiedFrom(cands, h, 1)
         IN /\ health' = h
            /\ failed_proxies' = failed_proxies \cup
                 {cands[k] : k \in {x \in 1..Len(cands) : CheckMarksFailed(h[x])}}
            /\ rounds' = rounds + 1
            /\ IF passed # <<>>
               THEN /\ \E vp \in Shuffles(passed) :
                         /\ valid_proxies' = vp
                         /\ Resume(lfor, FALSE, vp, <<>>)
                    /\ lpc' = "idle"
                    /\ lout' = "returned"
                    /\ UNCHANGED sleeps
               ELSE IF MoreRounds
               THEN /\ valid_proxies' = <<>>
                    /\ lpc' = "sleeping"
                    /\ sleeps' = sleeps + 1
                    /\ rr' = <<>>
                    /\ UNCHANGED <<lout, sel, current_proxy_index>>
               ELSE /\ valid_proxies' = <<>>
                    /\ lpc' = "idle"
                    /\ lout' = "exhausted"
                    /\ Resume(lfor, TRUE, <<>>, <<>>)
                    /\ UNCHANGED sleeps
    /\ UNCHANGED <<proxy_file, check_retries, lfor, attempt>>
    /\ UNCHANGED <<storeVars, pipeVars, schedVars, fetchVars, pmVars>>

\* asyncio.sleep(check_interval) ends: the next round is gathered
SleepEnd ==
    /\ lpc = "sleeping"
    /\ lpc' = "checking"
    /\ attempt' = attempt + 1
    /\ UNCHANGED <<proxy_file, check_retries, valid_proxies, failed_proxies,
                   current_proxy_index, lfor, rounds, sleeps, health, lout,
                   sel, rr>>
    /\ UNCHANGED <<storeVars, pipeVars, schedVars, fetchVars, pmVars>>

\* get_next_proxy(): with an empty list it awaits load_and_verify_proxies first
GetNextProxy ==
    /\ IF valid_proxies # <<>>
       THEN /\ sel' = NextOf(valid_proxies, current_proxy_index).res
            /\ current_proxy_index' = NextOf(valid_proxies, current_proxy_index).idx
            /\ rr' = Logged(rr, NextOf(valid_proxies, current_proxy_index).res)
            /\ UNCHANGED <<proxy_file, check_retries, valid_proxies,
                           failed_proxies, lpc, lfor, attempt, rounds, sleeps,
                           health, lout>>
       ELSE LoadBegin("next")
    /\ UNCHANGED <<storeVars, pipeVars, schedVars, fetchVars, pmVars>>

\* get_random_proxy(): with an empty list it awaits load_and_verify_proxies first
GetRandomProxy ==
    /\ IF valid_proxies # <<>>
       THEN /\ sel' \in RandomOf(valid_proxies)
            /\ UNCHANGED <<proxy_file, check_retries, valid_proxies,
                           failed_proxies, current_proxy_index, lpc, lfor,
                           attempt, rounds, sleeps, health, lout, rr>>
       ELSE LoadBegin("random")
    /\ UNCHANGED <<storeVars, pipeVars, schedVars, fetchVars, pmVars>>

\* mark_proxy_as_failed(p)
MarkProxyAsFailed(p) ==
    /\ failed_proxies' = failed_proxies \cup {p}
    /\ valid_proxies' = IF InList(valid_proxies, p)
                        THEN Remove(valid_proxies, p) ELSE valid_proxies
    /\ rr' = IF InList(valid_proxies, p) THEN <<>> ELSE rr
    /\ UNCHANGED <<proxy_file, check_retries, current_proxy_index, lpc, lfor,
                   attempt, rounds, sleeps, health, lout, sel>>
    /\ UNCHANGED <<storeVars, pipeVars, schedVars, fetchVars, pmVars>>

(***************************************************************************)
(* HTTPClient.get_content                                                  *)
(***************************************************************************)
\* ProxyManager.has_proxies
HasProxies == Len(valid_proxies) > 0

\* the proxy of an attempt: None without proxies; with proxies the value of
\* the call self.proxy_manager.get_proxy_for_request(...), which is not
\* awaited: a coroutine object, and no selection is made
AttemptProxyUnconditional == "coroutine"
AttemptProxy == IF HasProxies THEN "coroutine" ELSE "none"

\* how an attempt can end: the body, or a failure: ClientResponseError with
\* a 4xx status other than 429, with 429 or with a 5xx status, a ClientError,
\* a timeout, any other exception; a proxy argument that is not a string or
\* URL raises before any request is sent
Failures == {"4xx", "429", "5xx", "network", "timeout", "unexpected"}
AttemptOutcomes(proxy) ==
    IF proxy = "coroutine" THEN {"unexpected"}
    ELSE {"ok"} \cup Failures

\* "if 400 <= e.status < 500 and e.status != 429: break"
TerminalNever(o) == FALSE
Terminal(o) == o = "4xx"

\* the handlers set last_exception to a RequestException made from e
LastExceptionFirst(last, o) == IF last = "none" THEN o ELSE last
LastException(last, o) == o

RECURSIVE Pow2(_)
Pow2(n) == IF n = 0 THEN 1 ELSE 2 * Pow2(n - 1)

\* "wait_time = min(2**attempt, 5)"
WaitTimeUncapped(k) == Pow2(k)
WaitTime(k) == Min(Pow2(k), BackoffCap)

\* get_content(url) is called and issues its first attempt
GetContentCall ==
    /\ gpc \in {"idle", "returned", "raised"}
    /\ gattempt' = 0
    /\ gproxy' = AttemptProxy
    /\ gpc' = "request"
    /\ goutcome' = "none"
    /\ last_exception' = "none"
    /\ waits' = <<>>
    /\ gres' = "none"
    /\ UNCHANGED <<storeVars, pipeVars, schedVars, poolVars, pmVars>>

\* the attempt ends: return content, break on a 4xx other than 429, the
\* backoff sleep while attempts remain, else raise last_exception
AttemptEnds ==
    /\ gpc = "request"
    /\ \E o \in AttemptOutcomes(gproxy) :
         /\ goutcome' = o
         /\ IF o = "ok"
            THEN /\ gpc' = "returned"
                 /\ gres' = "content"
                 /\ UNCHANGED <<last_exception, waits>>
            ELSE /\ last_exception' = LastException(last_exception, o)
                 /\ IF ~Terminal(o) /\ gattempt < Retries
                    THEN /\ gpc' = "backoff"
                         /\ waits' = Append(waits, WaitTime(gattempt))
                         /\ UNCHANGED gres
                    ELSE /\ gpc' = "raised"
                         /\ gres' = last_exception'
                         /\ UNCHANGED waits
    /\ UNCHANGED <<gattempt, gproxy>>
    /\ UNCHANGED <<storeVars, pipeVars, schedVars, poolVars, pmVars>>

\* asyncio.sleep(wait_time) ends: the next attempt is issued
BackoffEnds ==
    /\ gpc = "backoff"
    /\ gattempt' = gattempt + 1
    /\ gproxy' = AttemptProxy
    /\ gpc' = "request"
    /\ UNCHANGED <<goutcome, last_exception, waits, gres>>
    /\ UNCHANGED <<storeVars, pipeVars, schedVars, poolVars, pmVars>>

(***************************************************************************)
(* SpecStore: the writers of the record store                              *)
(***************************************************************************)
InitStore == StoreInit /\ PipeInit /\ SchedInit /\ PmInit /\ NoPool /\ cycleCfg = TRUE

NextStore ==
    \E w \in Writers : CallBatch(w) \/ SaveCheck(w) \/ SaveCommit(w) \/ BatchNext(w)

SpecStore == InitStore /\ [][NextStore]_vars

\* C1: after any sequence and interleaving of save_product and
\* save_products_batch calls the table holds at most one row per SKU
C1_OneRowPerSku ==
    \A r1 \in db : \A r2 \in db : r1.sku = r2.sku => r1 = r2

\* two interleaved calls for one SKU have both returned, one row is stored
C1_Witness ==
    /\ \E w1 \in Writers : \E w2 \in Writers \ {w1} :
         /\ wpc[w1] = "ret" /\ wpc[w2] = "ret"
         /\ wprod[w1] = wprod[w2] /\ wprod[w1].ok
         /\ wpassed[w1] /\ wpassed[w2]
    /\ Cardinality(db) = NumSkus

\* C2: of two save_product calls for the same SKU that both passed the
\* product_exists pre-check before either committed, at most one returns True
C2_AtMostOneInserted ==
    \A w1 \in Writers : \A w2 \in Writers \ {w1} :
        ( /\ wpc[w1] = "ret" /\ wpc[w2] = "ret"
          /\ wprod[w1].sku = wprod[w2].sku
          /\ wpassed[w1] /\ wpassed[w2] )
        => ~(wret[w1] /\ wret[w2])

\* both passed the pre-check, one call inserted and the other got False
C2_Witness ==
    \E w1 \in Writers : \E w2 \in Writers \ {w1} :
        /\ wpc[w1] = "ret" /\ wpc[w2] = "ret"
        /\ wprod[w1].sku = wprod[w2].sku
        /\ wprod[w1].ok /\ wprod[w2].ok
        /\ wpassed[w1] /\ wpassed[w2]
        /\ wret[w1] /\ ~wret[w2]

\* the step in which writer w's save_product call returns
Returns(w) == wpc[w] \in {"call", "insert"} /\ wpc'[w] = "ret"

Init == StoreInit /\ PipeInit /\ SchedInit /\ PmInit /\ NoPool /\ cycleCfg = TRUE

Next ==
    \/ StartCycle
    \/ \E j \in 1..Len(tasks) : Acquire(j)
    \/ \E j \in 1..Len(tasks) : FetchDone(j)
    \/ LinksGatheredMore
    \/ LinksGatheredLast
    \/ LinksGatheredNone
    \/ ProductsGatheredMore
    \/ ProductsGatheredLast

Spec == Init /\ [][Next]_vars

C5_ConcurrencyBound ==
    /\ InFlight <= MaxConcurrency
    /\ sem = MaxConcurrency - InFlight

\* max_concurrency fetches are in flight at once, in discovery and in extraction
C5_Witness ==
    /\ ppc = "products" /\ InFlight = MaxConcurrency /\ sem = 0

\* C6 as claimed: a cycle in which a fetch raised OutOfProxiesException does
\* not return normally (it is aborted and the exception reaches the caller)
C6_Claimed ==
    (ppc = "done") => ~oopSeen

\* the links the seeds of the gathered batch listed (those whose task
\* returned its list)
Discovered ==
    UNION {SeedLinks(tasks[j].url) :
             j \in {x \in 1..Len(tasks) : tasks[x].res = "ok"}}

\* the step in which parse_links_batch filters the links of a batch
LinksFiltered == ppc = "links" /\ AllDone /\ (bi' # bi \/ ppc' # ppc)

\* C28 as claimed: of the links a batch discovered, filtering keeps exactly
\* those whose record key (the sku their record is stored under) is not in
\* the store when the batch is filtered
C28_Claimed ==
    [][LinksFiltered =>
         all_links' = all_links \cup
             {k \in Discovered : ParserSku(Link(k)) \notin Keys(db)}]_vars

\* C29 as claimed: a link from which _filter_links_by_existing_skus cannot
\* take a key (no "?id=" in it) is dropped: it is in no list handed to
\* parse_products_batch, no record of it is stored, and the other links of
\* its batch are filtered against the existing keys
C29_Claimed ==
    /\ \A k \in all_links : Has(Link(k), "?id=")
    /\ \A i \in 1..Len(todo) : Has(Link(todo[i]), "?id=")
    /\ \A r \in db :
         \E k \in 1..NumLinks : Has(Link(k), "?id=") /\ ParserSku(Link(k)) = r.sku

\* C39 as claimed: the key the filter takes from a link equals the sku of
\* the record extracted from the same URL, so a link whose record is stored
\* is removed by the filtering of every later cycle
C39_Claimed ==
    /\ \A i \in 1..Len(products) :
         FilterKey(Link(products[i].url)) = products[i].sku
    /\ (cycle >= 2 /\ ppc = "products") =>
         \A i \in 1..Len(todo) : ~ProductExists(db, ParserSku(Link(todo[i])))

\* C30: the list handed to parse_products_batch names each link once: it
\* is the union, over the seeds whose listing was fetched, of the links they
\* list, less the links the filter removed, so a link that two seeds list
\* (in one batch or in two) is parsed once
C30_LinkSetUnique ==
    ppc = "products" =>
      LET listed == UNION {SeedLinks(StartUrls[s]) :
                             s \in {x \in 1..NumSeeds : served.seed[x] = "ok"}}
      IN /\ \A i, j \in 1..Len(todo) : todo[i] = todo[j] => i = j
         /\ {todo[i] : i \in 1..Len(todo)} \subseteq listed
         /\ \A k \in listed :
              (\E i \in 1..Len(todo) : todo[i] = k)
              \/ FilterKey(Link(k)) = <<>>
              \/ FilterKey(Link(k)) \in Keys(db)

\* every seed was listed, seeds of one batch and of two batches share
\* links, and each of the links is in the list once
C30_Witness ==
    /\ ppc = "products" /\ \A s \in 1..NumSeeds : served.seed[s] = "ok"
    /\ Len(todo) = NumLinks /\ bi = 0

\* the records of the links of a list whose page was fetched and parsed, in
\* the order of the list
RECURSIVE RecordsOf(_)
RecordsOf(links) ==
    IF links = <<>> THEN <<>>
    ELSE (IF served.link[Head(links)] \in {"ok", "excluded"}
          THEN <<ProductOf(Head(links), served.link[Head(links)])>> ELSE <<>>)
         \o RecordsOf(Tail(links))

\* C31: an item that fails contributes nothing and stops neither its batch
\* nor the cycle: after each product batch, and when the cycle returns, the
\* records are exactly those of the links handled so far whose fetch and
\* parse succeeded, and a seed that fails leaves the links of the other
\* seeds in the list
C31_FailureIsolated ==
    /\ ppc = "products" => products = RecordsOf(SubSeq(todo, 1, bi))
    /\ (ppc = "done" /\ todo # <<>>) => products = RecordsOf(todo)
    /\ ppc = "products" =>
         \A s \in 1..NumSeeds : served.seed[s] = "ok" =>
            \A k \in SeedLinks(StartUrls[s]) :
               \/ \E i \in 1..Len(todo) : todo[i] = k
               \/ FilterKey(Link(k)) = <<>>
               \/ FilterKey(Link(k)) \in Keys(db)

\* of three links one failed: the cycle returned the two other records
C31_Witness ==
    /\ ppc = "done" /\ Len(todo) = 3 /\ Len(products) = 2
    /\ Cardinality({k \in 1..NumLinks : served.link[k] = "fail"}) = 1
    /\ \E s \in 1..NumSeeds : served.seed[s] = "fail"

\* the list whose batches the phase in progress works through
PhaseList == IF ppc = "links" THEN StartUrls ELSE todo

\* C32: the batches of a phase run one after another: the tasks that exist
\* are those of one batch, and the tasks of the next batch (or of the first
\* product batch) are made only when every task of the batch before has
\* ended and its results were collected
C32_BatchesSequential ==
    [][/\ ppc \in {"links", "products"} =>
            /\ Len(tasks) <= MaxConcurrency
            /\ \A j \in 1..Len(tasks) : tasks[j].url = PhaseList[bi + j]
       /\ (ppc \in {"links", "products"} /\ tasks' # tasks
            /\ (bi' # bi \/ ppc' # ppc)) =>
            /\ \A j \in 1..Len(tasks) : tasks[j].st = "done"
            /\ \A j \in 1..Len(tasks') : tasks'[j].st = "waiting"
            /\ ppc = "products" =>
                  Len(products') = Len(products)
                    + Cardinality({j \in 1..Len(tasks) :
                                     tasks[j].res \in {"ok", "excluded"}})]_vars

\* the second product batch has a fetch in flight and the results of the
\* first batch are in the list
C32_Witness ==
    /\ ppc = "products" /\ bi = MaxConcurrency /\ Len(products) = MaxConcurrency
    /\ \E j \in 1..Len(tasks) : tasks[j].st = "inflight"

\* the number of extraction batches of n links
NumBatches(n) == (n + MaxConcurrency - 1) \div MaxConcurrency

\* C33: the progress callback is invoked once after each extraction batch
\* with (processed, records, total): total is the number of filtered links,
\* processed strictly increases and equals total after the last batch,
\* records never decreases and never exceeds processed
C33_ProgressPerBatch ==
    /\ ppc = "products" => Len(progress) = 1 + bi \div MaxConcurrency
    /\ (ppc = "done" /\ todo # <<>>) =>
          /\ Len(progress) = 1 + NumBatches(Len(todo))
          /\ progress[Len(progress)].processed = Len(todo)
    /\ (ppc \in {"products", "done"} /\ todo # <<>>) =>
          \A i \in 2..Len(progress) :
            /\ progress[i].total = Len(todo)
            /\ progress[i].processed > progress[i - 1].processed
            /\ progress[i].found >= progress[i - 1].found
            /\ progress[i].found <= progress[i].processed
            /\ progress[i].found =
                 Len(RecordsOf(SubSeq(todo, 1, progress[i].processed)))

\* C33: a cycle of three links in two batches has ended with one failed
\* item: three calls, the last one (3, 2, 3)
C33_Witness ==
    /\ ppc = "done" /\ Len(todo) = 3 /\ Len(progress) = 3
    /\ progress[2].processed = MaxConcurrency
    /\ progress[3] = [processed |-> 3, found |-> 2, total |-> 3]

\* C34: with an empty LinkSet no extraction fetch is made and the cycle
\* completes normally with zero records and zero newly persisted records
C34_EmptyLinkSet ==
    /\ ppc = "products" => (todo # <<>> /\ tasks # <<>>)
    /\ (ppc = "done" /\ todo = <<>>) =>
          /\ products = <<>>
          /\ tasks = <<>>
          /\ saved # <<>> /\ saved[Len(saved)] = 0
          /\ \A i \in 1..Len(progress) : progress[i].processed = 0

\* C34: a cycle has ended with an empty LinkSet, no seed page having given
\* a link, and save_products_batch has reported zero new records
C34_Witness ==
    /\ ppc = "done" /\ todo = <<>> /\ saved = <<0>> /\ db = {}
    /\ \A sd \in 1..NumSeeds : served.seed[sd] = "fail"
    /\ progress = <<ProgressCall(0, 0, 0), ProgressCall(0, 0, 0)>>

InitProgress ==
    StoreInit /\ PipeInitWith(BOOLEAN) /\ SchedInit /\ PmInit /\ NoPool /\ cycleCfg = TRUE

SpecProgress == InitProgress /\ [][Next]_vars

\* C36: an exception raised by the progress callback does not leave
\* _update_progress: the batch loop goes on, and the records, the calls made
\* and the persisted rows of the cycle are those of a cycle whose callback
\* returns normally
C36_CallbackContained ==
    cbRaises =>
      /\ ppc = "products" =>
            /\ products = RecordsOf(SubSeq(todo, 1, bi))
            /\ Len(progress) = 1 + bi \div MaxConcurrency
      /\ (ppc = "done" /\ todo # <<>>) =>
            /\ products = RecordsOf(todo)
            /\ Len(progress) = 1 + NumBatches(Len(todo))
            /\ progress[Len(progress)] =
                 [processed |-> Len(todo), found |-> Len(products),
                  total |-> Len(todo)]
            /\ Len(saved) = cycle
            /\ \A i \in 1..Len(products) :
                 products[i].ok => products[i].sku \in Keys(db)

\* C36: with a callback that raises at every call, a cycle of three links
\* in two batches has ended with its records extracted and persisted
C36_Witness ==
    /\ cbRaises /\ ppc = "done" /\ Len(todo) = 3
    /\ Len(progress) = 3 /\ Len(products) >= 2
    /\ saved # <<>> /\ saved[1] > 0

(***************************************************************************)
(* SpecSched: start_cyclic_parsing and stop                                *)
(***************************************************************************)
InitSched == StoreInit /\ PipeInit /\ SchedInit /\ PmInit /\ NoPool /\ cycleCfg \in BOOLEAN

NextSched ==
    \/ \E c \in Callers : StartCall(c)
    \/ \E c \in Callers : CycleReturns(c)
    \/ \E c \in Callers : CycleOutOfProxies(c)
    \/ \E c \in Callers : CycleFails(c)
    \/ \E c \in Callers : Wake(c)
    \/ \E c \in Callers : Cancelled(c)
    \/ Stop

SpecSched == InitSched /\ [][NextSched]_vars

\* the step in which caller c's cycle ends with outcome o
CycleEnds(c, o) == spc[c] = "cycle" /\ spc'[c] # "cycle" /\ lastOut'[c] = o

\* C7: when a cycle ends with OutOfProxiesException, error_callback (when one
\* was given) is invoked once with the error, the loop ends without a further
\* cycle even with repetition enabled, and is_running is False
C7_ProxyExhaustionStops ==
    [][\A c \in Callers : CycleEnds(c, "oop") =>
          /\ hasErrCb[c] => /\ errCalls'[c] = 1 /\ resCalls'[c] = 0
                            /\ lastRes'[c] = "error"
          /\ spc'[c] = "finished"
          /\ scyc'[c] = scyc[c]
          /\ ~is_running']_vars

\* with repetition enabled a loop has ended on OutOfProxiesException after
\* telling error_callback
C7_Witness ==
    \E c \in Callers :
        /\ cycleCfg /\ lastOut[c] = "oop" /\ spc[c] = "finished"
        /\ hasErrCb[c] /\ errCalls[c] = 1 /\ ~is_running

\* C8: when a cycle fails with another exception, callback (when one was
\* given) is invoked once with the empty result, and with repetition enabled
\* and no stop requested the loop sleeps and then starts the next cycle
C8_FailureContinues ==
    [][\A c \in Callers :
          /\ CycleEnds(c, "err") =>
               /\ hasCb[c] => /\ resCalls'[c] = 1 /\ lastRes'[c] = "empty"
               /\ errCalls'[c] = 0
               /\ (cycleCfg /\ is_running) => (spc'[c] = "sleep" /\ is_running')
          /\ (spc[c] = "sleep" /\ lastOut[c] = "err" /\ is_running
                /\ spc'[c] # "sleep" /\ is_running')
               => (spc'[c] = "cycle" /\ scyc'[c] = scyc[c] + 1)]_vars

\* the cycle after a failed one is running
C8_Witness ==
    \E c \in Callers :
        /\ spc[c] = "cycle" /\ scyc[c] = 2 /\ lastOut[c] = "err"
        /\ hasCb[c] /\ lastRes[c] = "empty" /\ is_running

\* C9: for every cycle that has ended without cancellation, when callback
\* was given, exactly one of callback / error_callback was invoked, once;
\* error_callback only for OutOfProxiesException; no callback is invoked
\* for a cycle in progress or cancelled
C9_ExactlyOneCallback ==
    \A c \in Callers :
        /\ (spc[c] \in {"sleep", "finished"} /\ lastOut[c] \in {"ok", "oop", "err"}
              /\ hasCb[c])
             => /\ resCalls[c] + errCalls[c] = 1
                /\ errCalls[c] = 1 => lastOut[c] = "oop"
        /\ (spc[c] = "cycle" \/ lastOut[c] = "cancelled")
             => (resCalls[c] = 0 /\ errCalls[c] = 0)

\* with both callbacks given, a cycle ended on OutOfProxiesException and only
\* error_callback was invoked
C9_Witness ==
    \E c \in Callers :
        /\ hasCb[c] /\ hasErrCb[c] /\ lastOut[c] = "oop"
        /\ errCalls[c] = 1 /\ resCalls[c] = 0

\* C10: a start_cyclic_parsing call made while is_running is True returns
\* at once: no cycle is started, no callback invoked, is_running and every
\* other loop are left as they are
C10_BusyRefusal ==
    [][\A c \in Callers :
          (spc[c] \in {"idle", "finished", "refused"} /\ spc'[c] # spc[c]
             /\ is_running)
          => /\ spc'[c] = "refused"
             /\ \A d \in Callers \ {c} : spc'[d] = spc[d]
             /\ UNCHANGED <<is_running, scyc, resCalls, errCalls, lastOut,
                            lastRes, hasCb, hasErrCb, closed>>]_vars

\* a call was refused while another caller's loop is in a cycle
C10_Witness ==
    \E c \in Callers : \E d \in Callers \ {c} :
        spc[c] = "refused" /\ spc[d] = "cycle" /\ is_running

\* C12 as claimed: once stop() has been called on a scheduler that was
\* started, parser_service.close() has been executed
C12_Claimed ==
    (stopped /\ \E c \in Callers : spc[c] # "idle") => closed

\* C14 as claimed: with repetition enabled, a loop during which stop() was
\* requested leaves at its next check: after the cycle it neither sleeps nor
\* starts another cycle, and after the sleep it starts no cycle
C14_Claimed ==
    [][\A c \in Callers : (cycleCfg /\ stopReq[c]) =>
          /\ (spc[c] = "cycle" /\ spc'[c] # "cycle") => spc'[c] = "finished"
          /\ (spc[c] = "sleep" /\ spc'[c] # "sleep") => spc'[c] = "finished"]_vars

\* C38 as claimed: under any interleaving of start_cyclic_parsing and stop
\* calls at most one run_full_parsing cycle is in progress, and is_running is
\* True exactly while a scheduler loop is active
C38_Claimed ==
    /\ Cardinality({c \in Callers : spc[c] = "cycle"}) <= 1
    /\ is_running <=> (\E c \in Callers : spc[c] \in {"cycle", "sleep"})

\* C15: with repetition disabled (cycle = false) a start_cyclic_parsing call
\* runs exactly one cycle and then stops, however that cycle ends (result,
\* OutOfProxiesException or another exception): it never sleeps, never starts
\* a second cycle and leaves is_running False
C15_RunsOnce ==
    [][\A c \in Callers : ~cycleCfg =>
          /\ \A o \in {"ok", "oop", "err"} :
                CycleEnds(c, o) => (spc'[c] = "finished" /\ ~is_running')
          /\ spc'[c] # "sleep"
          /\ scyc'[c] <= 1]_vars

\* with repetition disabled a loop has ended after one failed cycle
C15_Witness ==
    \E c \in Callers :
        /\ ~cycleCfg /\ spc[c] = "finished" /\ lastOut[c] = "err"
        /\ scyc[c] = 1 /\ ~is_running

(***************************************************************************)
(* SpecRun: one start_cyclic_parsing call whose cycles are the            *)
(* run_full_parsing of this model, with stop() and the task's cancellation *)
(***************************************************************************)
\* the task that runs start_cyclic_parsing
LoopTask == "t1"

\* start_cyclic_parsing is called while not running, with callback and
\* error_callback as ParserManager.start_parsing passes them: everything up
\* to the gather of the first link batch runs without suspension
RunStart ==
    /\ spc[LoopTask] = "idle"
    /\ ~AlreadyRunning
    /\ StartLoop(LoopTask)
    /\ hasCb'[LoopTask] /\ hasErrCb'[LoopTask]
    /\ BeginCycle
    /\ UNCHANGED <<cycleCfg, writerVars, poolVars, fetchVars, pmVars>>

\* run_full_parsing has returned (products, None, saved_count): the callback
\* gets (result[0], result[2])
RunCycleReturns ==
    /\ ppc = "done"
    /\ CycleReturns(LoopTask)
    /\ hasCb[LoopTask] =>
         lastRes'[LoopTask] = (IF products # <<>> THEN "full" ELSE "empty")

\* the sleep ends: the loop leaves, or the next run_full_parsing is called
RunWake ==
    /\ WakeLoop(LoopTask)
    /\ IF is_running THEN BeginCycle ELSE UNCHANGED <<pipeVars, db>>
    /\ UNCHANGED <<writerVars, poolVars, fetchVars, pmVars>>

\* the task is cancelled (ParserManager.stop_parsing: current_task.cancel()):
\* CancelledError is raised at the await of the gather, whose tasks are
\* cancelled with it and leave "async with self.request_semaphore"; it is
\* not an Exception, so no handler below the scheduler's catches it and the
\* locals of run_full_parsing are dropped with its frame
CancelRun ==
    /\ CancelLoop(LoopTask)
    /\ IF spc[LoopTask] = "cycle" /\ ppc \in {"links", "products"}
       THEN /\ ppc' = "cancelled"
            /\ tasks' = <<>>
            /\ sem' = MaxConcurrency
            /\ bi' = 0
            /\ all_links' = {}
            /\ todo' = <<>>
            /\ products' = <<>>
            /\ oopSeen' = FALSE
            /\ progress' = <<>>
            /\ UNCHANGED <<served, cycle, saved, cbRaises>>
       ELSE UNCHANGED pipeVars
    /\ UNCHANGED <<storeVars, poolVars, fetchVars, pmVars>>

InitRun == StoreInit /\ PipeInit /\ SchedInit /\ PmInit /\ NoPool /\ cycleCfg = TRUE

NextRun ==
    \/ RunStart
    \/ \E j \in 1..Len(tasks) : Acquire(j)
    \/ \E j \in 1..Len(tasks) : FetchDone(j)
    \/ LinksGatheredMore
    \/ LinksGatheredLast
    \/ LinksGatheredNone
    \/ ProductsGatheredMore
    \/ ProductsGatheredLast
    \/ RunCycleReturns
    \/ RunWake
    \/ CancelRun
    \/ Stop

SpecRun == InitRun /\ [][NextRun]_vars

\* a step that starts a batch of link or product tasks
BatchStarts == (bi' # bi \/ ppc' # ppc) /\ tasks' # <<>>

\* C11 as claimed: once stop() was called during a cycle, no further link
\* or product batch of that cycle is started and is_running stays False
C11_Claimed ==
    [][(stopReq[LoopTask] /\ spc[LoopTask] = "cycle") =>
          (~BatchStarts /\ ~is_running')]_vars

\* C13: when the task is cancelled during a cycle, neither callback nor
\* error_callback is invoked for that cycle, nothing of it is saved, the
\* batch in flight is dropped and the loop ends with is_running False; no
\* callback is ever counted for a cancelled cycle
C13_CancellationSurfaces ==
    [][/\ CycleEnds(LoopTask, "cancelled") =>
            /\ resCalls' = resCalls /\ errCalls' = errCalls /\ lastRes' = lastRes
            /\ db' = db /\ saved' = saved
            /\ ppc \in {"links", "products"} => (ppc' = "cancelled" /\ tasks' = <<>>)
            /\ spc'[LoopTask] = "finished" /\ ~is_running'
       /\ lastOut[LoopTask] = "cancelled" =>
            (resCalls' = resCalls /\ errCalls' = errCalls)]_vars

\* the second cycle was cancelled with a batch in flight, after the first
\* one had saved records
C13_Witness ==
    /\ lastOut[LoopTask] = "cancelled" /\ ppc = "cancelled" /\ cycle = 2
    /\ db # {} /\ resCalls[LoopTask] = 0 /\ errCalls[LoopTask] = 0
    /\ spc[LoopTask] = "finished" /\ ~is_running

(***************************************************************************)
(* SpecBoot: ParserManager.initialize, then start_cyclic_parsing           *)
(***************************************************************************)
\* SchedulerService.initialize -> ParserService.initialize ->
\* ProxyManager.initialize: the one load_and_verify_proxies call of start-up
Initialize ==
    /\ lout = "none"
    /\ lpc = "idle"
    /\ LoadAndVerify

\* start_cyclic_parsing is called once initialize() has ended, whether it
\* returned or raised (nothing in SchedulerService remembers which)
BootStart ==
    /\ lout # "none"
    /\ lpc = "idle"
    /\ StartCall(LoopTask)

InitBoot ==
    /\ StoreInit /\ PipeInit /\ SchedInit /\ PmInit /\ PoolInit /\ FetchInit
    /\ cycleCfg = TRUE
    /\ proxy_file \in ProxyFiles
    /\ check_retries \in 0..MaxCheckRetries

NextBoot ==
    \/ Initialize
    \/ RoundEnd
    \/ SleepEnd
    \/ BootStart
    \/ CycleReturns(LoopTask)
    \/ CycleFails(LoopTask)
    \/ Wake(LoopTask)
    \/ Stop

SpecBoot == InitBoot /\ [][NextBoot]_vars

\* C16 as claimed: when every configured proxy failed verification in every
\* round, a start_cyclic_parsing call has error_callback invoked and runs
\* no cycle
C16_Claimed ==
    lout = "exhausted" =>
        \A c \in Callers :
            spc[c] # "idle" => (errCalls[c] >= 1 /\ spc[c] # "cycle" /\ scyc[c] = 0)

(***************************************************************************)
(* SpecFetch: ProxyManager.initialize, then get_content calls              *)
(***************************************************************************)
\* get_content is called by a cycle, which runs only after initialize()
\* returned
FetchCall ==
    /\ lout = "returned"
    /\ lpc = "idle"
    /\ GetContentCall

InitFetch ==
    /\ StoreInit /\ PipeInit /\ SchedInit /\ PmInit /\ PoolInit /\ FetchInit
    /\ cycleCfg = TRUE
    /\ proxy_file \in ProxyFiles
    /\ check_retries \in 0..MaxCheckRetries

NextFetch ==
    \/ Initialize
    \/ RoundEnd
    \/ SleepEnd
    \/ FetchCall
    \/ AttemptEnds
    \/ BackoffEnds

SpecFetch == InitFetch /\ [][NextFetch]_vars

\* C18: load_and_verify_proxies raises when the proxy file exists and names
\* no proxy, and returns with an empty pool when the file is absent; with an
\* empty pool every attempt of get_content is issued with proxy None
C18_EmptySource ==
    /\ (proxy_file.kind = "present" /\ proxy_file.proxies = <<>> /\ lout # "none")
         => (lout = "no_proxies" /\ valid_proxies = <<>> /\ rounds = 0)
    /\ (proxy_file.kind = "absent" /\ lout # "none")
         => (lout = "returned" /\ valid_proxies = <<>> /\ rounds = 0)
    /\ (gpc # "idle" /\ ~HasProxies) => gproxy = "none"

\* without a proxy file the load returned with an empty pool and a
\* get_content call then returned the body of a request sent without proxy
C18_Witness ==
    /\ proxy_file.kind = "absent" /\ lout = "returned" /\ valid_proxies = <<>>
    /\ gpc = "returned" /\ gproxy = "none"

\* an attempt of get_content is issued
AttemptIssued == gpc # "request" /\ gpc' = "request"

\* C23 as claimed: get_content issues at most retries + 1 attempts; with
\* proxies in the pool attempt 0 uses a proxy chosen at random from
\* valid_proxies and a later attempt the next round-robin proxy, the cursor
\* moving on; an attempt that succeeds ends the call with the body
C23_Claimed ==
    [][/\ AttemptIssued =>
            /\ gattempt' <= Retries
            /\ (HasProxies /\ gattempt' = 0) =>
                  gproxy' \in RandomOf(valid_proxies)
            /\ (HasProxies /\ gattempt' > 0) =>
                  /\ gproxy' = NextOf(valid_proxies, current_proxy_index).res
                  /\ current_proxy_index'
                       = NextOf(valid_proxies, current_proxy_index).idx
       /\ (gpc = "request" /\ goutcome' = "ok") =>
            (gpc' = "returned" /\ gres' = "content")]_vars

\* an attempt of get_content ends
AttemptEnded == gpc = "request" /\ gpc' # "request"

\* a get_content call has ended and no new call is made in this step
CallOver ==
    gpc \in {"returned", "raised"} /\ ~(gattempt' = 0 /\ gres' = "none")

\* C24: a 4xx response other than 429 ends the call after that attempt, with
\* no backoff wait and no further attempt; a 5xx, a 429, a network error, a
\* timeout and an unexpected exception are each followed by a backoff wait
\* and another attempt while attempts remain
C24_RetryClasses ==
    [][/\ (AttemptEnded /\ goutcome' = "4xx") =>
            (gpc' = "raised" /\ waits' = waits /\ gattempt' = gattempt)
       /\ ( /\ AttemptEnded /\ gattempt < Retries
            /\ goutcome' \in {"5xx", "429", "network", "timeout", "unexpected"} )
            => (gpc' = "backoff" /\ Len(waits') = Len(waits) + 1)
       /\ gpc = "backoff" => (gpc' = "request" /\ gattempt' = gattempt + 1)
       /\ CallOver => (gattempt' = gattempt /\ waits' = waits /\ gpc' = gpc)]_vars

\* the second attempt of a call got a 4xx after the first was retried, and
\* the call ended there
C24_Witness ==
    /\ gpc = "raised" /\ goutcome = "4xx" /\ gattempt = 1
    /\ Len(waits) = 1 /\ gattempt < Retries

\* C25: the k-th wait of a call (after attempt k - 1) is
\* min(2^(k-1), BackoffCap): the waits never decrease and never exceed the
\* cap, and a call that ended made one wait less than attempts
C25_Backoff ==
    /\ \A k \in 1..Len(waits) :
         /\ waits[k] = (IF Pow2(k - 1) < BackoffCap THEN Pow2(k - 1)
                        ELSE BackoffCap)
         /\ waits[k] <= BackoffCap
         /\ k > 1 => waits[k - 1] <= waits[k]
    /\ Len(waits) <= Retries
    /\ gpc \in {"request", "returned", "raised"} => Len(waits) = gattempt
    /\ gpc = "backoff" => Len(waits) = gattempt + 1

\* every attempt of a call failed and its last wait was the capped one
C25_Witness ==
    /\ gpc = "raised" /\ gattempt = Retries /\ Len(waits) = Retries
    /\ waits[Len(waits)] = BackoffCap /\ waits[1] = 1
    /\ Pow2(Retries - 1) > BackoffCap

\* C27: a get_content call that ends without a successful attempt (a 4xx
\* other than 429, or a failure of attempt number retries) raises the
\* RequestException made from the failure of its last attempt; it returns
\* only the body of an attempt that succeeded
C27_RaisesLast ==
    /\ gpc = "raised" =>
         /\ gres \in Failures /\ gres = goutcome
         /\ goutcome = "4xx" \/ gattempt = Retries
    /\ gpc = "returned" => (goutcome = "ok" /\ gres = "content")
    /\ gpc = "backoff" =>
         (goutcome \in Failures \ {"4xx"} /\ gattempt < Retries /\ gres = "none")
    /\ gpc = "request" => gres = "none"

\* a call without a proxy ended by raising the timeout of its last attempt
C27_Witness ==
    /\ gpc = "raised" /\ gattempt = Retries /\ gres = "timeout"
    /\ gproxy = "none" /\ last_exception = "timeout"

(***************************************************************************)
(* SpecPool: the operations of one ProxyManager                            *)
(***************************************************************************)
InitPool ==
    /\ StoreInit /\ PipeInit /\ SchedInit /\ PmInit /\ PoolInit /\ FetchInit
    /\ cycleCfg = TRUE
    /\ proxy_file \in ProxyFiles
    /\ check_retries \in 0..MaxCheckRetries

NextPool ==
    \/ LoadAndVerify
    \/ RoundEnd
    \/ SleepEnd
    \/ GetNextProxy
    \/ GetRandomProxy
    \/ \E p \in Proxies : MarkProxyAsFailed(p)

SpecPool == InitPool /\ [][NextPool]_vars

\* the proxy file exists and names at least one proxy
HasCandidates == proxy_file.kind = "present" /\ proxy_file.proxies # <<>>

\* candidate k of the last round had a health check of status st
SomeHealth(h, sts) == \E k \in 1..Len(h) : h[k] \in sts

\* the step in which a round of health checks ends
RoundEnds == lpc = "checking" /\ lpc' # "checking"

\* what load_and_verify_proxies does for a source with candidates, given
\* which statuses count as verified
LoadRounds(okStatuses) ==
    /\ rounds' <= check_retries
    /\ RoundEnds =>
         /\ SomeHealth(health', okStatuses) =>
               /\ lpc' = "idle" /\ lout' = "returned"
               /\ valid_proxies' # <<>>
               /\ sleeps' = sleeps /\ sleeps' = rounds' - 1
         /\ (~SomeHealth(health', okStatuses) /\ rounds' < check_retries) =>
               /\ lpc' = "sleeping" /\ sleeps' = sleeps + 1
               /\ sleeps' = rounds'
               /\ valid_proxies' = <<>>
         /\ (~SomeHealth(health', okStatuses) /\ rounds' >= check_retries) =>
               /\ lpc' = "idle" /\ lout' = "exhausted"
               /\ rounds' = check_retries /\ sleeps' = check_retries - 1
               /\ valid_proxies' = <<>>
    /\ ((lout' # lout \/ lpc # "idle") /\ lpc' = "idle" /\ lout' = "returned")
         => valid_proxies' # <<>>

\* C17 as claimed: for a proxy file with candidates and any check_retries,
\* load_and_verify_proxies makes at most check_retries rounds, stops at the
\* first round with a verified proxy, sleeps only between rounds, raises
\* after exactly check_retries empty rounds and never returns with an empty
\* verified set
C17_Claimed ==
    [][HasCandidates => LoadRounds({"2xx", "3xx"})]_vars

\* C17 as amended: the same for check_retries of at least 1
C17_VerifyRounds ==
    [][(HasCandidates /\ check_retries >= 1) => LoadRounds({"2xx", "3xx"})]_vars

\* a load raised after check_retries empty rounds with a sleep between them
C17_Witness ==
    /\ HasCandidates /\ check_retries = MaxCheckRetries
    /\ lpc = "idle" /\ lout = "exhausted"
    /\ rounds = check_retries /\ sleeps = check_retries - 1
    /\ valid_proxies = <<>>

\* cands[k] for the positions k of h whose status is in sts
Admitted(cands, h, sts) == {cands[k] : k \in {x \in 1..Len(h) : h[x] \in sts}}

\* what a load that succeeds leaves, given which statuses count as verified,
\* and what a round-robin selection then returns
VerifiedSet(okStatuses) ==
    /\ (RoundEnds /\ lout' = "returned" /\ lpc' = "idle") =>
         /\ {valid_proxies'[i] : i \in 1..Len(valid_proxies')}
              = Admitted(proxy_file.proxies, health', okStatuses)
         /\ Len(valid_proxies')
              = Cardinality(Admitted(proxy_file.proxies, health', okStatuses))
    /\ ( /\ GetNextProxy \/ (RoundEnd /\ lfor = "next")
         /\ lpc' = "idle" /\ sel' \in Proxies )
         => InList(valid_proxies', sel')

\* C19 as claimed: after a load that succeeds valid_proxies holds exactly the
\* candidates whose health check returned 2xx in that round, once each,
\* whatever it held before, and get_next_proxy returns only members of it
C19_Claimed ==
    [][VerifiedSet({"2xx"})]_vars

\* C19 as amended: after a load that succeeds valid_proxies holds exactly the
\* candidates whose health check got a response with a status below 400 in
\* that round (raise_for_status did not raise), once each, whatever it held
\* before: a candidate with a ClientError, a timeout or a status of 400 or
\* above is not in it, proxy_count is the number that passed, and
\* get_next_proxy returns only members of it
C19_VerifiedSet ==
    [][VerifiedSet({"2xx", "3xx"})]_vars

\* of two candidates one timed out and one passed: the pool holds the one
\* that passed and the round-robin selection returned it
C19_Witness ==
    /\ Len(proxy_file.proxies) = 2 /\ lpc = "idle" /\ lout = "returned"
    /\ SomeHealth(health, {"timeout"}) /\ SomeHealth(health, {"2xx"})
    /\ Len(valid_proxies) = 1 /\ sel = valid_proxies[1]
    /\ current_proxy_index = 0

\* C20 as claimed: a proxy for which mark_proxy_as_failed was called is
\* never again in valid_proxies
C20_Claimed ==
    \A p \in failed_proxies : ~InList(valid_proxies, p)


\* a selection that found valid_proxies empty when it was called ends
SelectionOnEmptyEnds ==
    \/ (GetNextProxy \/ GetRandomProxy) /\ valid_proxies = <<>> /\ lpc' = "idle"
    \/ RoundEnd /\ lfor \in {"next", "random"} /\ lpc' = "idle"

\* C21 as claimed: get_next_proxy and get_random_proxy called with
\* valid_proxies empty raise OutOfProxiesException: they return no proxy and
\* raise no other error
C21_Claimed ==
    [][SelectionOnEmptyEnds => sel' = "OutOfProxies"]_vars


\* how often get_next_proxy gave p in calls a..b of the record
TimesGiven(p, a, b) == Cardinality({i \in a..b : rr[i] = p})

\* C22 as claimed: in any M consecutive get_next_proxy calls on a list of K
\* proxies that was not assigned or changed meanwhile, each proxy of the
\* list is returned floor(M/K) or ceil(M/K) times
C22_Claimed ==
    LET K == Len(valid_proxies)
    IN K >= 1 =>
         \A a \in 1..Len(rr) : \A b \in a..Len(rr) :
           \A k \in 1..K :
             LET M == b - a + 1
             IN TimesGiven(valid_proxies[k], a, b)
                  \in {M \div K, (M + K - 1) \div K}

\* C37 as claimed: after any sequence of get_next_proxy, mark_proxy_as_failed
\* and load_and_verify_proxies, whenever valid_proxies is not empty the
\* cursor is an index of it (0 <= cursor < size)
C37_Claimed ==
    valid_proxies # <<>> =>
      (0 <= current_proxy_index /\ current_proxy_index < Len(valid_proxies))

(***************************************************************************)
(* SpecManager: ParserManager.start_parsing / stop_parsing over the        *)
(* scheduler of SpecSched                                                  *)
(***************************************************************************)
InitManager ==
    StoreInit /\ PipeInit /\ SchedInit /\ PmInit /\ NoPool /\ cycleCfg \in BOOLEAN

NextManager ==
    \/ StartParsing
    \/ StopParsing
    \/ NextSched

SpecManager == InitManager /\ [][NextManager]_vars

\* C40 as claimed: start_parsing refuses a run only while a scheduler task
\* is active; otherwise (no run yet, or the last one ended on its own) it
\* accepts one when the URLs are valid, without a stop_parsing before
C40_Claimed ==
    [][StartParsing =>
         IF pmTask = "active"
         THEN pmRet' \in {"already_tracking", "already_started"}
         ELSE pmRet' \in {"started", "bad_url"}]_vars

====
